---- MODULE Spec2Model ----
(***************************************************************************)
(* Job lifecycle engine of voyager-verifier: the protocol client's status  *)
(* query (ApiClient::get_job_status), the bounded poll-until-done engine   *)
(* (poll_verification_status, a backon ExponentialBuilder retry), the      *)
(* observer variant of the poll engine, and the batch orchestrator         *)
(* (submit_batch).                                                         *)
(***************************************************************************)
EXTENDS Integers, Sequences, FiniteSets, TLC

VARIABLES
    \* ---- poll_verification_status (api/client.rs) ----
    pollPc,        \* "fetch" | "sleep" | "returned"
    attempts,      \* ExponentialBackoff.attempts: retries handed out so far
    current_delay, \* ExponentialBackoff.current_delay: None or Some(seconds)
    pollResult,    \* None, or Some(Result<VerificationJob, ApiClientError>)
    fetches,       \* number of get_job_status calls issued in this run
    waits,         \* the durations slept so far, in order
    lastResp,      \* None or Some(the service's answer to the last fetch)
    lastStatus,    \* None or Some(what get_job_status returned for it)
    seen,          \* classes of get_job_status results seen in this run
    \* ---- poll_verification_status_with_callback ----
    obsPc,         \* "fetch" | "sleep" | "returned"
    obsAttempts,   \* retries used
    obsPresent,    \* whether the caller supplied an observer
    obsCalls,      \* the records the observer was invoked with, in order
    obsYielded,    \* the records the status fetches yielded, in order
    obsResult,     \* None, or Some(result of the call)
    \* ---- submit_batch (verification.rs) ----
    contracts,     \* config.contracts: per contract, whether its class hash parses
    fail_fast,     \* args.fail_fast
    dry_run,       \* args.dry_run
    batch_delay,   \* args.batch_delay: None or Some(seconds)
    index,         \* loop position, 0-based as in the code
    results,       \* Vec<BatchVerificationResult>
    batchPc,       \* "loop" | "returned"
    batchResult,   \* None, or Some(Result<BatchVerificationSummary, CliError>)
    delays,        \* for each rate-limiting sleep, the index it followed
    submitLog,     \* per contract handed to submit(): <<index, outcome>>
    serviceJobs    \* job ids the service has handed out (accepted submissions)

VARIABLES
    \* ---- handle_batch_verification / watch_batch (verification.rs) ----
    watchPc,       \* "handler" | "call" | "sweep" | "returned" | "skipped"
    wWatch,        \* args.watch
    wSummary,      \* the summary submit_batch returned
    wResults,      \* updated_results
    wPos,          \* position of the sweep in updated_results, 0-based
    wAllComplete,  \* all_complete
    wIteration,    \* iteration
    wSlept,        \* the duration slept by the last step, None if it did not sleep
    wService,      \* per position, the status the service holds for the job
    wFetched,      \* positions fetched so far in the current sweep
    wFetchCount,   \* status fetches issued since the batch was submitted
    wTermReported, \* positions for which the service has reported a terminal status
    wLastReported, \* per position, the status the service last reported
    wReturned      \* None, or Some(the summary watch_batch returned)

watchVars == <<watchPc, wWatch, wSummary, wResults, wPos, wAllComplete, wIteration,
               wSlept, wService, wFetched, wFetchCount, wTermReported, wLastReported, wReturned>>
VARIABLES
    ledger,        \* the verification_history table: job -> [status, completed_at]
    service,       \* the status the service holds for each job
    clock,         \* Utc::now(), in ticks
    lastOp         \* the last ledger operation run and what it observed
ledgerVars == <<ledger, service, clock, lastOp>>
VARIABLES
    vcPc,          \* "idle" | "call" | "returned"
    vcInput,       \* the arguments of verify_class and what the transport answers
    vcRequests,    \* the outbound requests made
    vcResult       \* None, or Some(Result<String, ApiClientError>)
clientVars == <<vcPc, vcInput, vcRequests, vcResult>>
restVars == <<watchVars, ledgerVars, clientVars>>

pollVars == <<pollPc, attempts, current_delay, pollResult, fetches, waits,
              lastResp, lastStatus, seen>>
obsVars == <<obsPc, obsAttempts, obsPresent, obsCalls, obsYielded, obsResult>>
batchVars == <<contracts, fail_fast, dry_run, batch_delay, index, results,
               batchPc, batchResult, delays, submitLog, serviceJobs>>
coreVars == <<pollVars, obsVars, batchVars>>
vars == <<pollVars, obsVars, batchVars, restVars>>

(***************************************************************************)
(* Option<T> and Result<T, E>                                              *)
(***************************************************************************)
None == <<>>
Some(x) == <<x>>
IsSome(o) == o # <<>>
Unwrap(o) == o[1]
Ok(v) == [tag |-> "Ok", val |-> v]
Err(e) == [tag |-> "Err", err |-> e]
IsOk(r) == r.tag = "Ok"
IsErr(r) == r.tag = "Err"

Min(a, b) == IF a < b THEN a ELSE b

WatchIdle ==
    /\ watchPc = "idle"
    /\ wWatch = FALSE
    /\ wSummary = [total |-> 0, submitted |-> 0, results |-> <<>>]
    /\ wResults = <<>>
    /\ wPos = 0
    /\ wAllComplete = TRUE
    /\ wIteration = 0
    /\ wSlept = <<>>
    /\ wService = <<>>
    /\ wFetched = <<>>
    /\ wFetchCount = 0
    /\ wTermReported = {}
    /\ wLastReported = <<>>
    /\ wReturned = <<>>

NoOp == [op |-> "none", at |-> 0, observed |-> <<>>]

LedgerIdle ==
    /\ ledger = <<>>
    /\ service = <<>>
    /\ clock = 0
    /\ lastOp = NoOp

ClientIdle ==
    /\ vcPc = "idle"
    /\ vcInput = <<>>
    /\ vcRequests = 0
    /\ vcResult = <<>>

RestIdle == WatchIdle /\ LedgerIdle /\ ClientIdle

(***************************************************************************)
(* Job state model                                                         *)
(***************************************************************************)
VerifyJobStatus ==
    {"Submitted", "Compiled", "CompileFailed", "Fail", "Success", "Processing", "Unknown"}

TerminalStatuses == {"Success", "Fail", "CompileFailed"}

(* Texts are sequences of words; a word is an atom compared exactly, as    *)
(* str::contains compares bytes.                                           *)
UnknownFailureText == <<"unknown", "failure">>
PayloadMarkerUpper == <<"Payload", "too", "large">>
PayloadMarkerLower == <<"payload", "too", "large">>
CairoServiceMarker == <<"Couldn't", "connect", "to", "cairo", "compilation", "service">>
PayloadTooLargeText == <<"Request", "payload", "too", "large.", "The", "project", "files", "exceed", "10MB.">>
ServiceUnavailableText == <<"Cairo", "compilation", "service", "is", "currently", "unavailable.">>

Contains(text, marker) ==
    \E i \in 0..(Len(text) - Len(marker)) :
        \A k \in 1..Len(marker) : text[i + k] = marker[k]

Messages ==
    { <<"boom">>,
      <<"error:", "Payload", "too", "large">>,
      <<"PAYLOAD", "TOO", "LARGE">>,
      CairoServiceMarker }

Descriptions == { <<"job", "failed">>, <<"payload", "too", "large">> }

VerificationJob ==
    [status : VerifyJobStatus,
     message : {None} \cup {Some(m) : m \in Messages},
     status_description : {None} \cup {Some(d) : d \in Descriptions}]

(* What the service can answer to GET class-verify/job/{id}.               *)
Responses ==
    { [kind |-> "send_error"],
      [kind |-> "http", code |-> 404],
      [kind |-> "http", code |-> 500],
      [kind |-> "http", code |-> 200, body |-> None] }
    \cup { [kind |-> "http", code |-> 200, body |-> Some(j)] : j \in VerificationJob }

(***************************************************************************)
(* ApiClient::get_job_status                                               *)
(***************************************************************************)
\* data.message.or_else(|| data.status_description.clone())
\*     .unwrap_or_else(|| "unknown failure".to_owned())
ErrorMessage(data) ==
    IF IsSome(data.message) THEN Unwrap(data.message)
    ELSE IF IsSome(data.status_description) THEN Unwrap(data.status_description)
    ELSE UnknownFailureText

\* the `parsed_error` of the Fail arm and of the CompileFailed arm
ParsedError(status, error_message) ==
    IF Contains(error_message, PayloadMarkerUpper) \/ Contains(error_message, PayloadMarkerLower)
    THEN PayloadTooLargeText
    ELSE IF status = "CompileFailed" /\ Contains(error_message, CairoServiceMarker)
    THEN ServiceUnavailableText
    ELSE error_message

\* the final `match data.status`
ClassifyBroken(data) ==
    CASE data.status = "Success" -> Ok(Some(data))
      [] data.status = "Fail" -> Ok(None)
      [] data.status = "CompileFailed" ->
            Err([kind |-> "Verify", variant |-> "CompilationFailure",
                 text |-> ParsedError("CompileFailed", ErrorMessage(data))])
      [] OTHER -> Ok(None)

Classify(data) ==
    CASE data.status = "Success" -> Ok(Some(data))
      [] data.status = "Fail" ->
            Err([kind |-> "Verify", variant |-> "VerificationFailure",
                 text |-> ParsedError("Fail", ErrorMessage(data))])
      [] data.status = "CompileFailed" ->
            Err([kind |-> "Verify", variant |-> "CompilationFailure",
                 text |-> ParsedError("CompileFailed", ErrorMessage(data))])
      [] data.status \in {"Submitted", "Compiled", "Processing", "Unknown"} -> Ok(None)

GetJobStatusRetryMalformed(resp) ==
    IF resp.kind = "send_error" THEN Err([kind |-> "Reqwest"])
    ELSE IF resp.code = 404 THEN Err([kind |-> "JobNotFound"])
    ELSE IF resp.code # 200 THEN Err([kind |-> "Failure", code |-> resp.code])
    ELSE IF resp.body = None THEN Ok(None)
    ELSE Classify(Unwrap(resp.body))

GetJobStatus(resp) ==
    IF resp.kind = "send_error" THEN Err([kind |-> "Reqwest"])
    ELSE IF resp.code = 404 THEN Err([kind |-> "JobNotFound"])
    ELSE IF resp.code # 200 THEN Err([kind |-> "Failure", code |-> resp.code])
    ELSE IF resp.body = None THEN Err([kind |-> "Failure", code |-> 200])
    ELSE Classify(Unwrap(resp.body))

(***************************************************************************)
(* poll_verification_status                                                *)
(***************************************************************************)
MAX_TIMES == 20
MIN_DELAY == 2
MAX_DELAY == 300
FACTOR == 2

\* enum Status { InProgress, Finished(ApiClientError) }
StatusInProgress == [tag |-> "InProgress"]
StatusFinished(e) == [tag |-> "Finished", err |-> e]

is_is_progress_always(status) == TRUE

is_is_progress_never(status) == FALSE

is_is_progress(status) ==
    CASE status.tag = "InProgress" -> TRUE
      [] status.tag = "Finished" -> FALSE

\* the `fetch` closure: Result<VerificationJob, Status>
Fetch(resp) ==
    LET result == GetJobStatus(resp) IN
    IF IsErr(result) THEN Err(StatusFinished(result.err))
    ELSE IF result.val = None THEN Err(StatusInProgress)
    ELSE Ok(Unwrap(result.val))

\* ExponentialBuilder::default().with_min_delay(2s).with_max_delay(300s)
\*     .with_max_times(20): the delay before the next retry, None when the
\* budget of retries is used up.
BackoffNextUncapped(att, cur) ==
    IF att >= MAX_TIMES THEN None
    ELSE IF cur = None THEN Some(MIN_DELAY)
    ELSE Some(Unwrap(cur) * FACTOR)

BackoffNextOneLess(att, cur) ==
    IF att >= MAX_TIMES - 1 THEN None
    ELSE IF cur = None THEN Some(MIN_DELAY)
    ELSE Some(Min(Unwrap(cur) * FACTOR, MAX_DELAY))

BackoffNext(att, cur) ==
    IF att >= MAX_TIMES THEN None
    ELSE IF cur = None THEN Some(MIN_DELAY)
    ELSE Some(Min(Unwrap(cur) * FACTOR, MAX_DELAY))

\* .map_err(|err| match err { InProgress => ApiClientError::InProgress,
\*                            Finished(e) => e })
MapErrSwallow(status) == [kind |-> "InProgress"]

MapErr(status) ==
    IF status.tag = "InProgress" THEN [kind |-> "InProgress"] ELSE status.err

ResultClass(r) ==
    IF IsErr(r) THEN (IF r.err.kind = "Verify" THEN "verify_error" ELSE "error")
    ELSE IF r.val = None THEN "null" ELSE "record"

PollInit ==
    /\ pollPc = "fetch"
    /\ attempts = 0
    /\ current_delay = None
    /\ pollResult = None
    /\ fetches = 0
    /\ waits = <<>>
    /\ lastResp = None
    /\ lastStatus = None
    /\ seen = {}

\* One turn of the retry loop: call `fetch`, then return or go to sleep.
PollFetch(resp) ==
    /\ pollPc = "fetch"
    /\ fetches' = fetches + 1
    /\ lastResp' = Some(resp)
    /\ lastStatus' = Some(GetJobStatus(resp))
    /\ seen' = seen \cup {ResultClass(GetJobStatus(resp))}
    /\ LET r == Fetch(resp) IN
       IF IsOk(r)
       THEN /\ pollResult' = Some(Ok(r.val))
            /\ pollPc' = "returned"
            /\ UNCHANGED <<attempts, current_delay, waits>>
       ELSE IF ~is_is_progress(r.err)
       THEN /\ pollResult' = Some(Err(MapErr(r.err)))
            /\ pollPc' = "returned"
            /\ UNCHANGED <<attempts, current_delay, waits>>
       ELSE LET dur == BackoffNext(attempts, current_delay) IN
            IF dur = None
            THEN /\ pollResult' = Some(Err(MapErr(r.err)))
                 /\ pollPc' = "returned"
                 /\ UNCHANGED <<attempts, current_delay, waits>>
            ELSE /\ attempts' = attempts + 1
                 /\ current_delay' = dur
                 /\ waits' = Append(waits, Unwrap(dur))
                 /\ pollPc' = "sleep"
                 /\ UNCHANGED pollResult
    /\ UNCHANGED <<obsVars, batchVars, restVars>>

\* The sleep is over: the loop calls `fetch` again.
PollWake ==
    /\ pollPc = "sleep"
    /\ pollPc' = "fetch"
    /\ UNCHANGED <<attempts, current_delay, pollResult, fetches, waits,
                   lastResp, lastStatus, seen>>
    /\ UNCHANGED <<obsVars, batchVars, restVars>>

PollNext == (\E resp \in Responses : PollFetch(resp)) \/ PollWake

(***************************************************************************)
(* poll_verification_status_with_callback: the poll engine with an         *)
(* observer.  Each fetch either raises (transport error, 404, malformed    *)
(* JSON, Fail, CompileFailed) or yields the job record; the observer, if   *)
(* present, is invoked with each record yielded; a Success record ends the *)
(* wait, any other record is followed by a backoff sleep and a retry.      *)
(***************************************************************************)
\* Lifecycle order of the statuses a live job passes through.
LifecycleRank(status) ==
    CASE status = "Submitted" -> 1
      [] status = "Processing" -> 2
      [] status = "Compiled" -> 3
      [] status \in TerminalStatuses -> 4
      [] OTHER -> 0

ObsFetchStatus(resp) ==
    LET r == GetJobStatus(resp) IN
    IF IsErr(r) THEN r ELSE Ok(Unwrap(resp.body))

ObsNotifyFinalOnly(present, calls, job) ==
    IF present /\ job.status \in TerminalStatuses THEN Append(calls, job) ELSE calls

ObsNotify(present, calls, job) ==
    IF present THEN Append(calls, job) ELSE calls

\* The answers a job moving forward through its lifecycle can give.
ObsAnswers(last) ==
    { resp \in Responses :
        (resp.kind = "http" /\ resp.code = 200 /\ resp.body # None) =>
            LET job == Unwrap(resp.body) IN
            /\ job.status # "Unknown"
            /\ LifecycleRank(job.status) >= LifecycleRank(last)
            /\ (job.status \notin {"Fail", "CompileFailed"} =>
                    job.message = None /\ job.status_description = None) }

ObsIdle ==
    /\ obsPc = "idle"
    /\ obsAttempts = 0
    /\ obsPresent = FALSE
    /\ obsCalls = <<>>
    /\ obsYielded = <<>>
    /\ obsResult = None

ObsInit ==
    /\ obsPc = "fetch"
    /\ obsAttempts = 0
    /\ obsPresent \in BOOLEAN
    /\ obsCalls = <<>>
    /\ obsYielded = <<>>
    /\ obsResult = None

ObsFetch(resp) ==
    /\ obsPc = "fetch"
    /\ LET r == ObsFetchStatus(resp) IN
       IF IsErr(r)
       THEN /\ obsResult' = Some(r)
            /\ obsPc' = "returned"
            /\ UNCHANGED <<obsAttempts, obsCalls, obsYielded>>
       ELSE /\ obsYielded' = Append(obsYielded, r.val)
            /\ obsCalls' = ObsNotify(obsPresent, obsCalls, r.val)
            /\ IF r.val.status = "Success"
               THEN /\ obsResult' = Some(Ok(r.val))
                    /\ obsPc' = "returned"
                    /\ UNCHANGED obsAttempts
               ELSE IF obsAttempts >= MAX_TIMES
               THEN /\ obsResult' = Some(Err([kind |-> "InProgress"]))
                    /\ obsPc' = "returned"
                    /\ UNCHANGED obsAttempts
               ELSE /\ obsAttempts' = obsAttempts + 1
                    /\ obsPc' = "sleep"
                    /\ UNCHANGED obsResult
    /\ UNCHANGED obsPresent
    /\ UNCHANGED <<pollVars, batchVars, restVars>>

ObsWake ==
    /\ obsPc = "sleep"
    /\ obsPc' = "fetch"
    /\ UNCHANGED <<obsAttempts, obsPresent, obsCalls, obsYielded, obsResult>>
    /\ UNCHANGED <<pollVars, batchVars, restVars>>

ObsLastStatus == IF obsYielded = <<>> THEN "Submitted" ELSE obsYielded[Len(obsYielded)].status

ObsNext == (\E resp \in ObsAnswers(ObsLastStatus) : ObsFetch(resp)) \/ ObsWake

(***************************************************************************)
(* submit_batch                                                            *)
(***************************************************************************)
MaxContracts == 3

\* What can happen to one call of submit(): it fails before any request is
\* made, or the request is sent and the service accepts it, rejects it, or
\* cannot be reached.
SubmitOutcomes == {"prepare_error", "accepted", "http_400", "send_error"}

JobId(n) == <<"job", n>>
DryRunId == <<"dry-run">>

CliErrorOf(outcome) ==
    CASE outcome = "prepare_error" -> [kind |-> "Cli", text |-> <<"no", "contracts", "selected">>]
      [] outcome = "http_400" -> [kind |-> "Failure", text |-> <<"400", "bad", "request">>]
      [] outcome = "send_error" -> [kind |-> "Reqwest", text |-> <<"connection", "refused">>]

ClassHashError == [kind |-> "ClassHash", text |-> <<"invalid", "class", "hash">>]

\* submit(api_client, &contract_args, license_info), given what happens to it
\* and the job id the service would assign.
Submit(dry, outcome, id) ==
    IF outcome = "prepare_error" THEN Err(CliErrorOf(outcome))
    ELSE IF dry THEN Ok(DryRunId)
    ELSE IF outcome = "accepted" THEN Ok(id)
    ELSE Err(CliErrorOf(outcome))

\* e.to_string()
ErrorToString(e) == e.text

\* The BatchVerificationResult built by the arms of `match submit(..)` that
\* do not return.
ResultOfNoErrorText(i, r) ==
    IF IsOk(r) /\ r.val # DryRunId
    THEN [contract |-> i, job_id |-> Some(r.val), status |-> Some("Submitted"), error |-> None]
    ELSE [contract |-> i, job_id |-> None, status |-> None, error |-> None]

ResultOfStatusAlways(i, r) ==
    IF IsOk(r) /\ r.val # DryRunId
    THEN [contract |-> i, job_id |-> Some(r.val), status |-> Some("Submitted"), error |-> None]
    ELSE IF IsOk(r)
    THEN [contract |-> i, job_id |-> None, status |-> Some("Submitted"), error |-> None]
    ELSE [contract |-> i, job_id |-> None, status |-> Some("Submitted"),
          error |-> Some(ErrorToString(r.err))]

ResultOf(i, r) ==
    IF IsOk(r) /\ r.val # DryRunId
    THEN [contract |-> i, job_id |-> Some(r.val), status |-> Some("Submitted"), error |-> None]
    ELSE IF IsOk(r)
    THEN [contract |-> i, job_id |-> None, status |-> None, error |-> None]
    ELSE [contract |-> i, job_id |-> None, status |-> None, error |-> Some(ErrorToString(r.err))]

\* results.iter().filter(|r| r.job_id.is_some()).count()
CountWithJobId(rs) == Cardinality({k \in 1..Len(rs) : IsSome(rs[k].job_id)})

CountSubmittedAll(rs) == Len(rs)

CountSubmitted(rs) == CountWithJobId(rs)

BatchIdle ==
    /\ contracts = <<>>
    /\ fail_fast = FALSE
    /\ dry_run = FALSE
    /\ batch_delay = None
    /\ index = 0
    /\ results = <<>>
    /\ batchPc = "idle"
    /\ batchResult = None
    /\ delays = <<>>
    /\ submitLog = <<>>
    /\ serviceJobs = {}

BatchInit ==
    /\ \E n \in 1..MaxContracts : \E f \in [1..n -> BOOLEAN] :
          contracts = [k \in 1..n |-> [hash_ok |-> f[k]]]
    /\ fail_fast \in BOOLEAN
    /\ dry_run \in BOOLEAN
    /\ batch_delay \in {None, Some(1)}
    /\ index = 0
    /\ results = <<>>
    /\ batchPc = "loop"
    /\ batchResult = None
    /\ delays = <<>>
    /\ submitLog = <<>>
    /\ serviceJobs = {}

\* One iteration of `for (index, contract_config) in config.contracts.iter().enumerate()`.
BatchStep(outcome) ==
    LET total == Len(contracts)
        id == JobId(Cardinality(serviceJobs) + 1)
        r == Submit(dry_run, outcome, id)
    IN
    /\ batchPc = "loop"
    /\ index < total
    /\ IF ~contracts[index + 1].hash_ok
       THEN \* ClassHash::new failed
            /\ IF fail_fast
               THEN /\ batchResult' = Some(Err(ClassHashError))
                    /\ batchPc' = "returned"
                    /\ UNCHANGED index
               ELSE /\ index' = index + 1
                    /\ UNCHANGED <<batchResult, batchPc>>
            /\ UNCHANGED <<results, delays, submitLog, serviceJobs>>
       ELSE /\ submitLog' = Append(submitLog, <<index, outcome>>)
            /\ serviceJobs' = IF IsOk(r) /\ r.val # DryRunId
                              THEN serviceJobs \cup {r.val} ELSE serviceJobs
            /\ IF IsErr(r) /\ fail_fast
               THEN /\ batchResult' = Some(Err(r.err))
                    /\ batchPc' = "returned"
                    /\ UNCHANGED <<index, results, delays>>
               ELSE /\ results' = Append(results, ResultOf(index, r))
                    /\ delays' = IF index < total - 1 /\ IsSome(batch_delay)
                                 THEN Append(delays, index) ELSE delays
                    /\ index' = index + 1
                    /\ UNCHANGED <<batchResult, batchPc>>
    /\ UNCHANGED <<contracts, fail_fast, dry_run, batch_delay>>
    /\ UNCHANGED <<pollVars, obsVars, restVars>>

\* After the loop: count the submitted ones and return the summary.
BatchReturn ==
    /\ batchPc = "loop"
    /\ index = Len(contracts)
    /\ batchResult' = Some(Ok([total |-> Len(contracts),
                               submitted |-> CountSubmitted(results),
                               results |-> results]))
    /\ batchPc' = "returned"
    /\ UNCHANGED <<contracts, fail_fast, dry_run, batch_delay, index, results,
                   delays, submitLog, serviceJobs>>
    /\ UNCHANGED <<pollVars, obsVars, restVars>>

BatchNext == (\E outcome \in SubmitOutcomes : BatchStep(outcome)) \/ BatchReturn

(***************************************************************************)
(* Specifications                                                          *)
(***************************************************************************)
PollIdle ==
    /\ pollPc = "idle"
    /\ attempts = 0
    /\ current_delay = None
    /\ pollResult = None
    /\ fetches = 0
    /\ waits = <<>>
    /\ lastResp = None
    /\ lastStatus = None
    /\ seen = {}

InitPoll == PollInit /\ ObsIdle /\ BatchIdle /\ RestIdle
InitObserver == PollIdle /\ ObsInit /\ BatchIdle /\ RestIdle
InitBatch == PollIdle /\ ObsIdle /\ BatchInit /\ RestIdle
CoreIdle == PollIdle /\ ObsIdle /\ BatchIdle

SpecPoll == InitPoll /\ [][PollNext]_vars
\* Each fetch gets an answer and each sleep ends.
SpecPollLive == InitPoll /\ [][PollNext]_vars /\ WF_vars(PollNext)
SpecObserver == InitObserver /\ [][ObsNext]_vars
SpecBatch == InitBatch /\ [][BatchNext]_vars

(***************************************************************************)
(* Properties of the poll engine (SpecPoll)                                *)
(***************************************************************************)
\* The status of the job record a response carries, None if it carries none.
ReportedStatus(resp) ==
    IF resp.kind = "http" /\ resp.code = 200 /\ resp.body # None
    THEN Some(Unwrap(resp.body).status)
    ELSE None

LastReported == IF lastResp = None THEN None ELSE ReportedStatus(Unwrap(lastResp))

InProgressError == [kind |-> "InProgress"]

\* C2: once a status fetch reports Fail or CompileFailed, polling has ended
\* with a verification error of that kind and no further fetch is issued.
C2_TerminalFailureEndsPolling ==
    /\ [](LastReported \in {Some("Fail"), Some("CompileFailed")} =>
            /\ pollPc = "returned"
            /\ IsSome(pollResult)
            /\ IsErr(Unwrap(pollResult))
            /\ Unwrap(pollResult).err.kind = "Verify"
            /\ Unwrap(pollResult).err.variant =
                  (IF LastReported = Some("Fail") THEN "VerificationFailure"
                   ELSE "CompilationFailure"))
    /\ [][(LastReported \in {Some("Fail"), Some("CompileFailed")}) =>
            (fetches' = fetches)]_vars

C2_Witness ==
    /\ LastReported = Some("CompileFailed")
    /\ fetches = 3
    /\ pollPc = "returned"

\* C3: for a job record returned with HTTP 200, get_job_status returns
\* Ok(None) exactly for Submitted, Processing, Compiled and Unknown, the
\* record for Success, and a verification error for Fail and CompileFailed.
C3_NullIffNonTerminal ==
    IsSome(LastReported) =>
        LET st == Unwrap(LastReported)
            out == Unwrap(lastStatus)
        IN
        /\ (out = Ok(None)) <=> (st \in {"Submitted", "Processing", "Compiled", "Unknown"})
        /\ st = "Success" => out = Ok(Unwrap(lastResp).body)
        /\ st \in {"Fail", "CompileFailed"} => IsErr(out) /\ out.err.kind = "Verify"

C3_Witness ==
    /\ LastReported = Some("Unknown")
    /\ lastStatus = Some(Ok(None))
    /\ fetches = 2

\* C4 as stated: a run never issues more than 20 status fetches.
C4_AtMostTwentyFetches == fetches <= 20

\* C4 amended: a run never issues more than 21 status fetches, the first one
\* and 20 retries; a run whose fetches were all non-terminal has issued all
\* 21 by the time it returns, and returns the in-progress outcome.
C4_AtMostTwentyOneFetches ==
    /\ fetches <= 21
    /\ attempts <= 20
    /\ (pollPc = "returned" /\ seen = {"null"}) =>
            /\ fetches = 21
            /\ pollResult = Some(Err(InProgressError))

C4_Witness ==
    /\ pollPc = "returned"
    /\ fetches = 21
    /\ seen = {"null"}
    /\ pollResult = Some(Err(InProgressError))

\* C5: the waits between consecutive fetches start at 2 seconds, each next
\* one is the previous one times a constant factor cut off at 300 seconds,
\* so they never decrease and none exceeds 300 seconds.
C5_BackoffWaits ==
    /\ (waits # <<>> => waits[1] = 2)
    /\ \A i \in 1..Len(waits) : waits[i] <= 300
    /\ \A i \in 1..(Len(waits) - 1) : waits[i] <= waits[i + 1]
    /\ \E f \in 2..4 : \A i \in 1..(Len(waits) - 1) :
            waits[i + 1] = Min(f * waits[i], 300)
    /\ Len(waits) = attempts

C5_Witness ==
    /\ Len(waits) = 20
    /\ waits[8] = 256
    /\ waits[9] = 300
    /\ waits[20] = 300

\* C6: a run ends with the InProgress outcome exactly when every fetch of it
\* answered "not yet done"; it then has used its whole retry budget, and the
\* outcome is neither a verification failure nor a transport error.
C6_InProgressOnlyOnExhaustion ==
    pollPc = "returned" =>
        /\ (pollResult = Some(Err(InProgressError))) <=> (seen = {"null"})
        /\ pollResult = Some(Err(InProgressError)) =>
              /\ attempts = MAX_TIMES
              /\ lastStatus = Some(Ok(None))
        /\ seen # {"null"} =>
              \/ IsOk(Unwrap(pollResult))
              \/ Unwrap(pollResult).err.kind \in {"Verify", "Reqwest", "Failure", "JobNotFound"}

C6_Witness ==
    /\ pollPc = "returned"
    /\ pollResult = Some(Err(InProgressError))
    /\ attempts = MAX_TIMES
    /\ LastReported = Some("Processing")

\* The error get_job_status has for an answer that carries no job record.
TransportErrorOf(resp) ==
    IF resp.kind = "send_error" THEN [kind |-> "Reqwest"]
    ELSE IF resp.code = 404 THEN [kind |-> "JobNotFound"]
    ELSE [kind |-> "Failure", code |-> resp.code]

\* C7: a further fetch is issued only after a "not yet done" answer; any
\* error of the status fetch (transport failure, non-200 status, 404,
\* malformed JSON) ends polling when it first occurs and is returned to the
\* caller as that same error.
C7_ErrorsAreNotRetried ==
    /\ [](IsSome(lastStatus) /\ IsErr(Unwrap(lastStatus)) =>
            /\ pollPc = "returned"
            /\ pollResult = Some(Err(Unwrap(lastStatus).err)))
    /\ [](IsSome(lastResp) /\ ReportedStatus(Unwrap(lastResp)) = None =>
            /\ pollPc = "returned"
            /\ pollResult = Some(Err(TransportErrorOf(Unwrap(lastResp)))))
    /\ [][(fetches > 0 /\ fetches' # fetches) =>
            (lastStatus = Some(Ok(None)) /\ IsSome(LastReported))]_vars

C7_Witness ==
    /\ lastResp = Some([kind |-> "http", code |-> 200, body |-> None])
    /\ fetches = 4
    /\ pollPc = "returned"
    /\ pollResult = Some(Err([kind |-> "Failure", code |-> 200]))

(***************************************************************************)
(* Properties of the poll engine with an observer (SpecObserver)           *)
(***************************************************************************)
StatusesOf(jobs) == [k \in 1..Len(jobs) |-> jobs[k].status]

\* C8: a supplied observer is invoked exactly once per status fetch that
\* yields a job record, in fetch order, for the intermediate records and for
\* the final one; for the fetch sequence Submitted, Success it fires exactly
\* twice and the last call carries the Success record.  Without an observer
\* nothing is invoked.
C8_ObserverSeesEveryRecord ==
    /\ obsPresent => obsCalls = obsYielded
    /\ ~obsPresent => obsCalls = <<>>
    /\ (obsPresent /\ obsPc = "returned" /\ IsOk(Unwrap(obsResult))) =>
            /\ obsCalls # <<>>
            /\ obsCalls[Len(obsCalls)] = Unwrap(obsResult).val
            /\ obsCalls[Len(obsCalls)].status = "Success"
            /\ \A k \in 1..(Len(obsCalls) - 1) : obsCalls[k].status \notin TerminalStatuses
    /\ (obsPresent /\ StatusesOf(obsYielded) = <<"Submitted", "Success">>) =>
            /\ Len(obsCalls) = 2
            /\ obsCalls[2].status = "Success"

C8_Witness ==
    /\ obsPresent
    /\ obsPc = "returned"
    /\ StatusesOf(obsYielded) = <<"Submitted", "Success">>
    /\ StatusesOf(obsCalls) = <<"Submitted", "Success">>

(***************************************************************************)
(* Properties of submit_batch (SpecBatch)                                  *)
(***************************************************************************)
BatchReturnedOk == batchPc = "returned" /\ IsOk(Unwrap(batchResult))
BatchReturnedErr == batchPc = "returned" /\ IsErr(Unwrap(batchResult))
Summary == Unwrap(batchResult).val

\* Whether a call of submit() with this outcome failed.
SubmissionFailed(outcome) ==
    outcome = "prepare_error" \/ (~dry_run /\ outcome # "accepted")

\* Whether the service accepted a submission with this outcome.
SubmissionAccepted(outcome) == ~dry_run /\ outcome = "accepted"

\* C1: with fail-fast off the returned result list has one entry per input
\* contract, and the entry at each position is that of the contract at that
\* position, whatever fails (an invalid class hash included).
C1_ResultsMatchContracts ==
    (BatchReturnedOk /\ ~fail_fast) =>
        /\ Len(Summary.results) = Len(contracts)
        /\ \A k \in 1..Len(Summary.results) : Summary.results[k].contract = k - 1

C9_WitnessFailFast ==
    /\ fail_fast
    /\ Len(contracts) = 3
    /\ Len(submitLog) = 2
    /\ submitLog[2] = <<1, "http_400">>
    /\ BatchReturnedErr

C10_SummaryCounts ==
    BatchReturnedOk =>
        /\ Summary.total = Len(contracts)
        /\ Summary.submitted = Cardinality(serviceJobs)
        /\ Summary.submitted =
              Cardinality({k \in 1..Len(submitLog) : SubmissionAccepted(submitLog[k][2])})
        /\ Summary.submitted = CountWithJobId(Summary.results)
        /\ ( /\ Len(contracts) = 3
             /\ \A k \in 1..3 : contracts[k].hash_ok
             /\ ~fail_fast
             /\ Len(submitLog) = 3
             /\ SubmissionAccepted(submitLog[1][2])
             /\ SubmissionFailed(submitLog[2][2])
             /\ SubmissionAccepted(submitLog[3][2]) ) =>
                /\ Summary.total = 3
                /\ Summary.submitted = 2
                /\ IsSome(Summary.results[2].error)
                /\ IsSome(Summary.results[1].job_id)
                /\ IsSome(Summary.results[3].job_id)

C10_Witness ==
    /\ BatchReturnedOk
    /\ Len(contracts) = 3
    /\ \A k \in 1..3 : contracts[k].hash_ok
    /\ ~fail_fast
    /\ ~dry_run
    /\ Len(submitLog) = 3
    /\ submitLog[1][2] = "accepted"
    /\ submitLog[2][2] = "http_400"
    /\ submitLog[3][2] = "accepted"
    /\ Summary.submitted = 2

(***************************************************************************)
(* handle_batch_verification and watch_batch                               *)
(***************************************************************************)
MaxWatch == 2
MaxSweeps == 3
WATCH_INTERVAL == 5

\* The status of the job record an answer carries, None if it carries none.
ReportedStatusOf(resp) ==
    IF resp.kind = "http" /\ resp.code = 200 /\ resp.body # None
    THEN Some(Unwrap(resp.body).status)
    ELSE None

\* e.to_string() of an ApiClientError
ApiErrorToString(e) ==
    CASE e.kind = "Reqwest" -> <<"error", "sending", "request">>
      [] e.kind = "JobNotFound" -> <<"job", "not", "found">>
      [] e.kind = "Failure" -> <<"request", "failed">>
      [] e.kind = "Verify" -> e.text
      [] OTHER -> <<"in", "progress">>

\* The answers to a status fetch a sweep can get: the errors, and a job
\* record of each status.
WatchAnswers ==
    { resp \in Responses :
        (resp.kind = "http" /\ resp.code = 200 /\ resp.body # None) =>
            /\ Unwrap(resp.body).message = None
            /\ Unwrap(resp.body).status_description = None }

\* The answers to a fetch of a job for which the service holds status st:
\* an error, or the job record with that status.
WatchAnswersFor(st) ==
    { resp \in WatchAnswers : ReportedStatusOf(resp) \in {None, Some(st)} }

\* The results submit_batch can leave for a contract.
BatchResultShapes(i) ==
    { [contract |-> i, job_id |-> Some(JobId(i + 1)), status |-> Some("Submitted"), error |-> None],
      [contract |-> i, job_id |-> None, status |-> None, error |-> None],
      [contract |-> i, job_id |-> None, status |-> None,
       error |-> Some(ErrorToString(CliErrorOf("http_400")))] }

IsTerminalOpt(st) ==
    st \in {Some("Success"), Some("Fail"), Some("CompileFailed")}

\* summary.results.iter().filter_map(|r| r.job_id.as_deref()).collect()
JobIdsOf(rs) == {k \in 1..Len(rs) : IsSome(rs[k].job_id)}

WatchInit ==
    /\ watchPc \in {"handler", "call"}
    /\ wWatch \in BOOLEAN
    /\ \E n \in 1..MaxWatch :
         \E rs \in [1..n -> UNION {BatchResultShapes(i) : i \in 0..(n - 1)}] :
            /\ \A k \in 1..n : rs[k].contract = k - 1
            /\ wSummary = [total |-> n, submitted |-> CountSubmitted(rs), results |-> rs]
    /\ wResults = <<>>
    /\ wPos = 0
    /\ wAllComplete = TRUE
    /\ wIteration = 0
    /\ wSlept = None
    /\ wService = [k \in 1..Len(wSummary.results) |-> "Submitted"]
    /\ wFetched = <<>>
    /\ wFetchCount = 0
    /\ wTermReported = {}
    /\ wLastReported = <<>>
    /\ wReturned = None

\* handle_batch_verification, after submit_batch: `if args.watch && summary.submitted > 0`
EntersWatchAlways(watch, submitted) == TRUE

EntersWatch(watch, submitted) == watch /\ submitted > 0

WatchDecide ==
    /\ watchPc = "handler"
    /\ watchPc' = IF EntersWatch(wWatch, wSummary.submitted) THEN "call" ELSE "skipped"
    /\ UNCHANGED <<wWatch, wSummary, wResults, wPos, wAllComplete, wIteration, wSlept,
                   wService, wFetched, wFetchCount, wTermReported, wLastReported,
                   wReturned>>
    /\ UNCHANGED <<coreVars, ledgerVars, clientVars>>

\* watch_batch up to the first sweep: return a clone when there is no job id.
NothingToWatch(rs) == JobIdsOf(rs) = {}

WatchEnter ==
    /\ watchPc = "call"
    /\ IF NothingToWatch(wSummary.results)
       THEN /\ wReturned' = Some(wSummary)
            /\ watchPc' = "returned"
            /\ UNCHANGED <<wResults, wAllComplete, wIteration, wLastReported>>
       ELSE /\ wResults' = wSummary.results
            /\ wAllComplete' = TRUE
            /\ wIteration' = 1
            /\ wLastReported' = [k \in 1..Len(wSummary.results) |-> None]
            /\ watchPc' = "sweep"
            /\ UNCHANGED wReturned
    /\ UNCHANGED <<wWatch, wSummary, wPos, wSlept, wService, wFetched, wFetchCount,
                   wTermReported>>
    /\ UNCHANGED <<coreVars, ledgerVars, clientVars>>

\* `if matches!(result.status, Some(Success) | Some(Fail) | Some(CompileFailed)) { continue; }`
SkipsResult(result) == result.job_id = None \/ IsTerminalOpt(result.status)

\* The arms of `match api_client.get_job_status(..)`: the result and all_complete after it.
AfterFetchErrorPending(result, complete, r) ==
    IF IsErr(r) THEN <<[result EXCEPT !.error = Some(ApiErrorToString(r.err))], FALSE>>
    ELSE IF r.val = None THEN <<result, FALSE>>
    ELSE <<[result EXCEPT !.status = Some(Unwrap(r.val).status)],
           complete /\ Unwrap(r.val).status \in TerminalStatuses>>

AfterFetchDropsJobId(result, complete, r) ==
    IF IsErr(r)
    THEN <<[result EXCEPT !.error = Some(ApiErrorToString(r.err)), !.job_id = None], complete>>
    ELSE IF r.val = None THEN <<result, FALSE>>
    ELSE <<[result EXCEPT !.status = Some(Unwrap(r.val).status)],
           complete /\ Unwrap(r.val).status \in TerminalStatuses>>

AfterFetch(result, complete, r) ==
    IF IsErr(r) THEN <<[result EXCEPT !.error = Some(ApiErrorToString(r.err))], complete>>
    ELSE IF r.val = None THEN <<result, FALSE>>
    ELSE <<[result EXCEPT !.status = Some(Unwrap(r.val).status)],
           complete /\ Unwrap(r.val).status \in TerminalStatuses>>

\* One turn of `for result in &mut updated_results`.
WatchVisit(resp) ==
    /\ watchPc = "sweep"
    /\ wPos < Len(wResults)
    /\ LET k == wPos + 1
           result == wResults[k]
       IN
       IF SkipsResult(result)
       THEN UNCHANGED <<wResults, wAllComplete, wFetched, wFetchCount, wTermReported,
                        wLastReported>>
       ELSE LET after == AfterFetch(result, wAllComplete, GetJobStatus(resp))
                reported == ReportedStatusOf(resp)
            IN
            /\ wResults' = [wResults EXCEPT ![k] = after[1]]
            /\ wAllComplete' = after[2]
            /\ wFetched' = Append(wFetched, k)
            /\ wFetchCount' = Min(wFetchCount + 1, MaxWatch * MaxSweeps)
            /\ wTermReported' = IF IsTerminalOpt(reported)
                                THEN wTermReported \cup {k} ELSE wTermReported
            /\ wLastReported' = IF IsSome(reported)
                                THEN [wLastReported EXCEPT ![k] = reported]
                                ELSE wLastReported
    /\ wPos' = wPos + 1
    /\ wSlept' = None
    /\ UNCHANGED <<watchPc, wWatch, wSummary, wIteration, wService, wReturned>>
    /\ UNCHANGED <<coreVars, ledgerVars, clientVars>>

\* After the `for`: report, then return or sleep and start the next sweep.
WatchSweepEnd ==
    /\ watchPc = "sweep"
    /\ wPos = Len(wResults)
    /\ IF wAllComplete
       THEN /\ wReturned' = Some([total |-> wSummary.total,
                                  submitted |-> wSummary.submitted,
                                  results |-> wResults])
            /\ watchPc' = "returned"
            /\ wSlept' = None
            /\ UNCHANGED <<wPos, wAllComplete, wIteration, wFetched>>
       ELSE /\ wSlept' = Some(WATCH_INTERVAL)
            /\ wAllComplete' = TRUE
            /\ wIteration' = Min(wIteration + 1, MaxSweeps)
            /\ wPos' = 0
            /\ wFetched' = <<>>
            /\ UNCHANGED <<watchPc, wReturned>>
    /\ UNCHANGED <<wWatch, wSummary, wResults, wService, wFetchCount, wTermReported,
                   wLastReported>>
    /\ UNCHANGED <<coreVars, ledgerVars, clientVars>>

\* The service moves the job at position k forward in its lifecycle.
WatchServiceAdvance(k, st) ==
    /\ watchPc \in {"call", "sweep"}
    /\ k \in JobIdsOf(wSummary.results)
    /\ st \in VerifyJobStatus \ {"Unknown"}
    /\ LifecycleRank(st) > LifecycleRank(wService[k])
    /\ wService' = [wService EXCEPT ![k] = st]
    /\ UNCHANGED <<watchPc, wWatch, wSummary, wResults, wPos, wAllComplete, wIteration,
                   wSlept, wFetched, wFetchCount, wTermReported, wLastReported, wReturned>>
    /\ UNCHANGED <<coreVars, ledgerVars, clientVars>>

WatchNext ==
    \/ WatchDecide
    \/ WatchEnter
    \/ \E resp \in WatchAnswers : WatchVisit(resp)
    \/ WatchSweepEnd

\* watch_batch called on a summary of submitted jobs, each fetch answered
\* from the status the service holds for the job at that time.
WatchLiveInit ==
    /\ WatchInit
    /\ watchPc = "call"
    /\ wWatch
    /\ JobIdsOf(wSummary.results) = 1..Len(wSummary.results)

WatchLiveStep ==
    \/ WatchEnter
    \/ \E resp \in WatchAnswers :
          WatchVisit(resp) /\ resp \in WatchAnswersFor(wService[wPos + 1])
    \/ WatchSweepEnd

WatchLiveNext ==
    \/ WatchLiveStep
    \/ \E k \in 1..MaxWatch, st \in VerifyJobStatus : WatchServiceAdvance(k, st)

InitWatchLive == CoreIdle /\ ClientIdle /\ LedgerIdle /\ WatchLiveInit
SpecWatchLive == InitWatchLive /\ [][WatchLiveNext]_vars /\ WF_vars(WatchLiveStep)

InitWatch == CoreIdle /\ ClientIdle /\ LedgerIdle /\ WatchInit
SpecWatch == InitWatch /\ [][WatchNext]_vars

(***************************************************************************)
(* Claims about watch_batch and handle_batch_verification                   *)
(***************************************************************************)
\* Every result with a job id is terminal or has an error recorded.
AllSettled(rs) ==
    \A k \in JobIdsOf(rs) : IsTerminalOpt(rs[k].status) \/ IsSome(rs[k].error)

WatchSweepDone == watchPc = "sweep" /\ wPos = Len(wResults)

\* C11: once the service has reported a terminal status (Success, Fail or
\* CompileFailed) for a job, no later sweep fetches the status of that job,
\* and the status stored for a job never goes from terminal to non-terminal.
C11_NoFetchPastTerminal ==
    [][/\ \A k \in wTermReported : wFetched' # Append(wFetched, k)
       /\ \A k \in 1..Len(wResults) :
            (IsTerminalOpt(wResults[k].status) /\ Len(wResults') = Len(wResults))
                => IsTerminalOpt(wResults'[k].status)]_vars

\* C12: watch_batch returns at the end of a sweep exactly when every result
\* with a job id is then terminal or has an error recorded, otherwise it
\* sleeps 5 seconds and starts another sweep; it never returns in the middle
\* of a sweep.
C12_StopsExactlyWhenSettled ==
    [][/\ (WatchSweepDone /\ AllSettled(wResults)) => watchPc' = "returned"
       /\ (WatchSweepDone /\ ~AllSettled(wResults)) =>
            /\ watchPc' = "sweep"
            /\ wPos' = 0
            /\ wSlept' = Some(5)
       /\ (watchPc = "sweep" /\ watchPc' = "returned") => WatchSweepDone]_vars

\* C18: the handler calls watch_batch only if watch mode is requested and at
\* least one submission succeeded, and otherwise no status fetch is issued;
\* watch_batch on a summary without job ids returns it unchanged and issues
\* no status fetch.
C18_TrackingOnlyWhenAsked ==
    [][/\ (watchPc = "handler" /\ watchPc' = "call")
            => (wWatch /\ wSummary.submitted > 0)
       /\ (watchPc = "handler" /\ ~(wWatch /\ wSummary.submitted > 0))
            => (watchPc' = "skipped" /\ wFetchCount' = 0)
       /\ (watchPc = "skipped") => UNCHANGED vars
       /\ (watchPc = "call" /\ JobIdsOf(wSummary.results) = {})
            => (watchPc' = "returned" /\ wReturned' = Some(wSummary)
                /\ wFetchCount' = 0)
       /\ (watchPc = "returned") => UNCHANGED vars]_vars

C18_Witness ==
    /\ watchPc = "skipped"
    /\ wWatch
    /\ wSummary.submitted = 0
    /\ wFetchCount = 0

(***************************************************************************)
(* The history ledger: VerificationRecord, HistoryDb and the commands that *)
(* update it (check, history status --refresh, history recheck)            *)
(***************************************************************************)
MaxJobs == 2
MaxClock == 3

Jobs == 1..MaxJobs

PendingStatuses == {"Submitted", "Processing", "Compiled"}

\* VerificationRecord::new(.., VerifyJobStatus::Submitted, ..), the fields the
\* ledger operations read or write.
NewRecord == [status |-> "Submitted", completed_at |-> None]

\* VerificationRecord::update_status(&mut self, status), run at time t
RecordUpdateStatus(rec, status, t) ==
    [status |-> status,
     completed_at |-> IF status \in TerminalStatuses THEN Some(t) ELSE rec.completed_at]

\* HistoryDb::update_status(job_id, status, completed_at):
\* UPDATE verification_history SET status = ?1, completed_at = ?2 WHERE job_id = ?3
DbUpdateStatus(table, job_id, status, completed_at) ==
    [j \in DOMAIN table |->
        IF j = job_id THEN [status |-> status, completed_at |-> completed_at]
        ELSE table[j]]

\* db.get_by_job_id(job_id)
GetByJobId(table, job_id) ==
    IF job_id \in DOMAIN table THEN Some(table[job_id]) ELSE None

\* poll_verification_status, as a function of the answer that ends the wait:
\* an error, a terminal record, or the non-terminal record of the last fetch
\* the retry budget allows.
PollOutcome(resp) ==
    LET r == Fetch(resp) IN
    IF IsOk(r) THEN r ELSE Err(MapErr(r.err))

\* poll_verification_status_with_callback returns as poll_verification_status does.
PollWithCallbackOutcome(resp) == PollOutcome(resp)

\* What a fetch of a job can be answered with while the service holds
\* status st for it.
LedgerAnswers(st) ==
    { resp \in WatchAnswers :
        \/ resp.kind = "send_error"
        \/ ReportedStatusOf(resp) = Some(st) }

\* update_history_status(job_id, status), run at time t
UpdateHistoryStatus(table, job_id, status, t) ==
    LET found == GetByJobId(table, job_id) IN
    IF IsSome(found)
    THEN LET record == RecordUpdateStatus(Unwrap(found), status, t)
         IN DbUpdateStatus(table, job_id, record.status, record.completed_at)
    ELSE table

\* One pending record of the recheck loop, polled with answer resp at time t.
RecheckOne(rec, resp, t) ==
    LET r == PollOutcome(resp) IN
    IF IsErr(r) THEN rec
    ELSE LET updated == RecordUpdateStatus(rec, r.val.status, t)
         IN IF rec.status = updated.status THEN rec ELSE updated

\* get_all_pending_jobs(&db)
AllPendingJobs(table) == {j \in DOMAIN table : table[j].status \in PendingStatuses}

Observed(job_id, resp) == [j \in Jobs |-> IF j = job_id THEN ReportedStatusOf(resp) ELSE None]

LedgerInit ==
    /\ ledger = [j \in Jobs |-> NewRecord]
    /\ service = [j \in Jobs |-> "Submitted"]
    /\ clock = 0
    /\ lastOp = NoOp

\* The service moves a job forward in its lifecycle.
ServiceAdvance(j, st) ==
    /\ st \in VerifyJobStatus \ {"Unknown"}
    /\ LifecycleRank(st) > LifecycleRank(service[j])
    /\ service' = [service EXCEPT ![j] = st]
    /\ UNCHANGED <<ledger, clock, lastOp>>
    /\ UNCHANGED <<coreVars, watchVars, clientVars>>

\* check(api_client, job_id, format)
Check(j, resp) ==
    /\ clock < MaxClock
    /\ clock' = clock + 1
    /\ LET r == PollWithCallbackOutcome(resp) IN
       ledger' = IF IsErr(r) THEN ledger
                 ELSE UpdateHistoryStatus(ledger, j, r.val.status, clock')
    /\ lastOp' = [op |-> "check", at |-> clock', observed |-> Observed(j, resp)]
    /\ UNCHANGED service
    /\ UNCHANGED <<coreVars, watchVars, clientVars>>

\* handle_history_status(job, .., refresh = true, ..)
HistoryStatusRefresh(j, resp) ==
    /\ clock < MaxClock
    /\ clock' = clock + 1
    /\ LET found == GetByJobId(ledger, j)
           r == PollOutcome(resp)
       IN
       ledger' = IF found = None \/ IsErr(r) THEN ledger
                 ELSE LET rec == RecordUpdateStatus(Unwrap(found), r.val.status, clock')
                      IN DbUpdateStatus(ledger, j, rec.status, rec.completed_at)
    /\ lastOp' = [op |-> "refresh", at |-> clock', observed |-> Observed(j, resp)]
    /\ UNCHANGED service
    /\ UNCHANGED <<coreVars, watchVars, clientVars>>

\* handle_history_recheck(..), each pending job j answered with answers[j]
HistoryRecheck(answers) ==
    /\ clock < MaxClock
    /\ clock' = clock + 1
    /\ LET pending == AllPendingJobs(ledger) IN
       /\ ledger' = [j \in Jobs |->
                        IF j \in pending THEN RecheckOne(ledger[j], answers[j], clock')
                        ELSE ledger[j]]
       /\ lastOp' = [op |-> "recheck", at |-> clock',
                     observed |-> [j \in Jobs |->
                                     IF j \in pending THEN ReportedStatusOf(answers[j])
                                     ELSE None]]
    /\ UNCHANGED service
    /\ UNCHANGED <<coreVars, watchVars, clientVars>>

LedgerNext ==
    \/ \E j \in Jobs, st \in VerifyJobStatus : ServiceAdvance(j, st)
    \/ \E j \in Jobs : \E resp \in LedgerAnswers(service[j]) : Check(j, resp)
    \/ \E j \in Jobs : \E resp \in LedgerAnswers(service[j]) : HistoryStatusRefresh(j, resp)
    \/ \E answers \in [Jobs -> WatchAnswers] :
          /\ \A j \in Jobs : answers[j] \in LedgerAnswers(service[j])
          /\ HistoryRecheck(answers)

InitLedger == CoreIdle /\ ClientIdle /\ WatchIdle /\ LedgerInit
SpecLedger == InitLedger /\ [][LedgerNext]_vars

(***************************************************************************)
(* HistoryDb::update_status applied to a table                             *)
(***************************************************************************)
\* The rows a table can hold: a completion timestamp goes with a terminal status.
DbRecords ==
    { r \in [status : VerifyJobStatus \ {"Unknown"},
             completed_at : {None} \cup {Some(t) : t \in 0..MaxClock}] :
        IsSome(r.completed_at) <=> r.status \in TerminalStatuses }

DbInit ==
    /\ ledger \in [Jobs -> DbRecords]
    /\ service = <<>>
    /\ clock = 0
    /\ lastOp = NoOp

\* db.update_status(job_id, status, completed_at)
DbUpdate(job_id, status, completed_at) ==
    /\ lastOp = NoOp
    /\ ledger' = DbUpdateStatus(ledger, job_id, status, completed_at)
    /\ lastOp' = [op |-> "db_update", at |-> 0, observed |-> <<>>,
                  job_id |-> job_id, status |-> status, completed_at |-> completed_at]
    /\ UNCHANGED <<service, clock>>
    /\ UNCHANGED <<coreVars, watchVars, clientVars>>

DbNext ==
    \E job_id \in 1..(MaxJobs + 1), status \in VerifyJobStatus \ {"Unknown"},
       completed_at \in {None} \cup {Some(t) : t \in 0..MaxClock} :
        DbUpdate(job_id, status, completed_at)

InitDb == CoreIdle /\ ClientIdle /\ WatchIdle /\ DbInit
SpecDb == InitDb /\ [][DbNext]_vars

(***************************************************************************)
(* Claims about the ledger                                                 *)
(***************************************************************************)
LedgerOpRan == lastOp' # lastOp

\* C13: the completion timestamp of a ledger entry is set when a terminal
\* status is first recorded, and no later update of the entry (check,
\* history status --refresh, recheck) changes it.
C13_CompletedAtSetOnce ==
    [][\A j \in Jobs :
         /\ (ledger[j].status \notin TerminalStatuses
               /\ ledger'[j].status \in TerminalStatuses)
              => ledger'[j].completed_at = Some(clock')
         /\ IsSome(ledger[j].completed_at)
              => ledger'[j].completed_at = ledger[j].completed_at]_vars

\* C14: HistoryDb::update_status applied to an entry that holds a terminal
\* status, with a non-terminal status and no completion timestamp, leaves
\* the entry's status and completion timestamp unchanged.
C14_TerminalNotErased ==
    [][\A j \in Jobs :
         (/\ lastOp'.op = "db_update"
          /\ lastOp'.job_id = j
          /\ ledger[j].status \in TerminalStatuses
          /\ lastOp'.status \in PendingStatuses
          /\ lastOp'.completed_at = None)
            => ledger'[j] = ledger[j]]_vars

\* C15: whenever check, refresh or recheck observes for a job a status
\* (Processing, Compiled, Success, Fail or CompileFailed) that differs from
\* the one in the ledger, the ledger entry then holds the observed status.
C15_ObservedStatusRecorded ==
    [][\A j \in Jobs :
         (/\ LedgerOpRan
          /\ IsSome(lastOp'.observed[j])
          /\ Unwrap(lastOp'.observed[j]) # ledger[j].status)
            => ledger'[j].status = Unwrap(lastOp'.observed[j])]_vars

\* C16: when the ledger entry of a job is non-terminal while the service
\* holds a terminal status for it, a recheck sweep that gets the service's
\* answer leaves the entry with that terminal status and a completion
\* timestamp.
C16_RecheckConverges ==
    [][\A j \in Jobs :
         (/\ LedgerOpRan
          /\ lastOp'.op = "recheck"
          /\ ledger[j].status \in PendingStatuses
          /\ service[j] \in TerminalStatuses
          /\ lastOp'.observed[j] = Some(service[j]))
            => (ledger'[j].status = service[j] /\ IsSome(ledger'[j].completed_at))]_vars

(***************************************************************************)
(* Claims about the batch delay                                            *)
(***************************************************************************)
\* C17: with a batch delay configured, a run of submit_batch that is not
\* aborted by fail-fast has slept exactly once after each contract but the
\* last, whatever the outcome of each contract: N contracts, N - 1 delays.
C17_DelayBetweenContracts ==
    (BatchReturnedOk /\ IsSome(batch_delay)) =>
        delays = [k \in 1..(Len(contracts) - 1) |-> k - 1]

(***************************************************************************)
(* ApiClient::verify_class                                                 *)
(***************************************************************************)
SubmitPayloadTooLargeText ==
    <<"Request", "payload", "too", "large.", "Maximum", "allowed", "size", "is", "10MB.">>

\* Response bodies, as token sequences.
SubmitBodies ==
    { <<"{", "job_id", ":", "j-1", "}">>,
      <<"{", "job_id", ":", "j-2", "}">>,
      <<"{", "error", ":", "bad-input", "}">>,
      <<"{", "error", ":", "too-big", "}">>,
      <<"{", "job_id", ":", "j-1", ",", "error", ":", "bad-input", "}">>,
      <<"{", "}">>,
      <<"<html>", "error", ":", "oops">>,
      <<>> }

SubmitCodes == {200, 201, 400, 404, 413, 500, 503}

ClassHashes == {"0x1", "0x2"}

\* What `.send()` comes back with.
SubmitSends ==
    {[kind |-> "send_error"]} \cup [kind : {"http"}, code : SubmitCodes, body : SubmitBodies]

\* self.verify_class_url(class_hash)
VerifyClassUrl(class_hash) == <<"base", "class-verify", class_hash>>

IsJsonObject(raw) == Len(raw) >= 2 /\ raw[1] = "{" /\ raw[Len(raw)] = "}"

\* The string field `name` of the JSON object in raw, None when raw does not
\* decode to an object with that field.
JsonField(raw, name) ==
    LET at == {i \in 2..(Len(raw) - 3) : raw[i] = name /\ raw[i + 1] = ":"} IN
    IF IsJsonObject(raw) /\ at # {}
    THEN Some(raw[(CHOOSE i \in at : \A k \in at : i <= k) + 2])
    ELSE None

\* RequestFailure::new(url, status, msg)
RequestFailure(url, status, msg) ==
    [kind |-> "Failure", url |-> url, code |-> status, msg |-> msg]

DecodeError == [kind |-> "Reqwest", what |-> "decode"]

\* `match response.status()` and what follows it
VerifyClassResponseBodyOn413(url, code, body) ==
    CASE code = 200 ->
            LET job_id == JsonField(body, "job_id") IN
            IF IsSome(job_id) THEN Ok(Unwrap(job_id)) ELSE Err(DecodeError)
      [] code = 400 ->
            LET error == JsonField(body, "error") IN
            IF IsSome(error) THEN Err(RequestFailure(url, 400, <<Unwrap(error)>>))
            ELSE Err(DecodeError)
      [] OTHER -> Err(RequestFailure(url, code, body))

VerifyClassResponse(url, code, body) ==
    CASE code = 200 ->
            LET job_id == JsonField(body, "job_id") IN
            IF IsSome(job_id) THEN Ok(Unwrap(job_id)) ELSE Err(DecodeError)
      [] code = 400 ->
            LET error == JsonField(body, "error") IN
            IF IsSome(error) THEN Err(RequestFailure(url, 400, <<Unwrap(error)>>))
            ELSE Err(DecodeError)
      [] code = 413 -> Err(RequestFailure(url, 413, SubmitPayloadTooLargeText))
      [] OTHER -> Err(RequestFailure(url, code, body))

\* verify_class: <<result, outbound requests made>>
VerifyClass(in) ==
    IF ~in.readable THEN <<Err([kind |-> "Io"]), 0>>
    ELSE IF ~in.base_ok THEN <<Err([kind |-> "CannotBeBase"]), 0>>
    ELSE IF in.send.kind = "send_error" THEN <<Err([kind |-> "Reqwest", what |-> "send"]), 1>>
    ELSE <<VerifyClassResponse(VerifyClassUrl(in.class_hash), in.send.code, in.send.body), 1>>

ClientInit ==
    /\ vcPc = "call"
    /\ vcInput \in [class_hash : ClassHashes, readable : BOOLEAN, base_ok : BOOLEAN,
                    send : SubmitSends]
    /\ vcRequests = 0
    /\ vcResult = None

VerifyClassCall ==
    /\ vcPc = "call"
    /\ LET out == VerifyClass(vcInput) IN
       /\ vcResult' = Some(out[1])
       /\ vcRequests' = out[2]
    /\ vcPc' = "returned"
    /\ UNCHANGED vcInput
    /\ UNCHANGED <<coreVars, watchVars, ledgerVars>>

ClientNext == VerifyClassCall

InitClient == CoreIdle /\ WatchIdle /\ LedgerIdle /\ ClientInit
SpecClient == InitClient /\ [][ClientNext]_vars

\* The call returned after the service answered with an HTTP status.
VcAnswered ==
    /\ vcPc = "returned"
    /\ vcRequests = 1
    /\ vcInput.send.kind = "http"

VcUrl == VerifyClassUrl(vcInput.class_hash)

\* C19: verify_class returns a job id only on HTTP 200; on 413 the error is
\* the request failure with the fixed payload-too-large text, whatever the
\* body; on 400 it is the request failure with the error text the service
\* put in the body; on any other status it is the request failure with the
\* status code and the body; each request failure carries the request URL.
C19_SubmitStatusHandling ==
    /\ (vcPc = "returned" /\ IsOk(Unwrap(vcResult)))
         => (VcAnswered /\ vcInput.send.code = 200)
    /\ VcAnswered =>
         LET code == vcInput.send.code
             body == vcInput.send.body
             res == Unwrap(vcResult)
         IN
         /\ code = 413
              => res = Err(RequestFailure(VcUrl, 413, SubmitPayloadTooLargeText))
         /\ (code = 400 /\ IsSome(JsonField(body, "error")))
              => res = Err(RequestFailure(VcUrl, 400, <<Unwrap(JsonField(body, "error"))>>))
         /\ code = 400 => IsErr(res)
         /\ code \notin {200, 400, 413}
              => res = Err(RequestFailure(VcUrl, code, body))

C19_Witness ==
    /\ VcAnswered
    /\ vcInput.send.code = 413
    /\ vcInput.send.body = <<"{", "error", ":", "too-big", "}">>
    /\ Unwrap(vcResult) = Err(RequestFailure(VcUrl, 413, SubmitPayloadTooLargeText))

(***************************************************************************)
(* Claims about the terminal-failure message                               *)
(***************************************************************************)
LowerWord(w) ==
    CASE w = "Payload" -> "payload"
      [] w = "PAYLOAD" -> "payload"
      [] w = "TOO" -> "too"
      [] w = "LARGE" -> "large"
      [] w = "Couldn't" -> "couldn't"
      [] OTHER -> w

ToLowercase(text) == [k \in 1..Len(text) |-> LowerWord(text[k])]

ReferenceBaseText(job) ==
    IF IsSome(job.message) THEN Unwrap(job.message)
    ELSE IF IsSome(job.status_description) THEN Unwrap(job.status_description)
    ELSE UnknownFailureText

ReferenceMessage(job) ==
    LET base == ReferenceBaseText(job) IN
    IF Contains(ToLowercase(base), PayloadMarkerLower) THEN PayloadTooLargeText
    ELSE IF job.status = "CompileFailed" /\ Contains(base, CairoServiceMarker)
    THEN ServiceUnavailableText
    ELSE base

\* C20: the message of the verification error get_job_status returns for a
\* Fail or CompileFailed record is: the fixed payload-too-large message when
\* the base text (message, else status description, else "unknown failure")
\* contains "payload too large" in any letter case; else, for CompileFailed
\* only, the fixed service-unavailable message when the base text contains
\* "Couldn't connect to cairo compilation service"; else the base text.
C20_FailureMessageRule ==
    LastReported \in {Some("Fail"), Some("CompileFailed")} =>
        Unwrap(lastStatus).err.text = ReferenceMessage(Unwrap(Unwrap(lastResp).body))

(***************************************************************************)
(* Claims about what watch_batch returns                                   *)
(***************************************************************************)
WatchReturned == watchPc = "returned" /\ IsSome(wReturned)

\* C21: when watch_batch returns, the status in each watched result is the
\* last status the service reported for that job; a job reported as Fail or
\* CompileFailed has that status in its result.
C21_ReturnedStatusIsLastReported ==
    WatchReturned =>
        \A k \in 1..Len(wLastReported) :
            IsSome(wLastReported[k])
                => Unwrap(wReturned).results[k].status = wLastReported[k]

\* The service holds a terminal status for every watched job.
WatchServiceAllTerminal ==
    \A k \in JobIdsOf(wSummary.results) : wService[k] \in TerminalStatuses

\* C22: if the service eventually holds a terminal status for every watched
\* job, and every status fetch gets an answer (a record or an error), then
\* watch_batch eventually returns.
C22_WatchEventuallyReturns ==
    (<>[]WatchServiceAllTerminal) => <>(watchPc = "returned")

C22_Witness ==
    /\ WatchReturned
    /\ WatchServiceAllTerminal
    /\ wIteration >= 2
    /\ \E k \in 1..Len(wResults) : IsSome(wResults[k].error)

(***************************************************************************)
(* Claims about the outcome of poll_verification_status                    *)
(***************************************************************************)
PollDone ==
    /\ IsOk(Unwrap(pollResult))
    /\ Unwrap(pollResult).val.status = "Success"
    /\ lastStatus = Some(Ok(Some(Unwrap(pollResult).val)))

PollFailed ==
    /\ IsErr(Unwrap(pollResult))
    /\ IsErr(Unwrap(lastStatus))
    /\ Unwrap(pollResult).err = Unwrap(lastStatus).err

PollExhausted ==
    /\ pollResult = Some(Err(InProgressError))
    /\ lastStatus = Some(Ok(None))
    /\ attempts = MAX_TIMES

PollOutcomes ==
    Cardinality({o \in {"Done", "Failed", "Exhausted"} :
                    \/ o = "Done" /\ PollDone
                    \/ o = "Failed" /\ PollFailed
                    \/ o = "Exhausted" /\ PollExhausted})

\* C23: every run of poll_verification_status returns, and when it has
\* returned its result is exactly one of: the record of the last fetch, of
\* status Success (Done); the error of the last fetch (Failed); InProgress
\* after the last fetch the retry budget allows reported a non-terminal
\* status (Exhausted).
C23_PollTerminatesInOneOutcome ==
    /\ <>(pollPc = "returned")
    /\ [](pollPc = "returned" => (IsSome(pollResult) /\ PollOutcomes = 1))

C23_Witness ==
    /\ pollPc = "returned"
    /\ PollFailed
    /\ fetches >= 2
    /\ Unwrap(pollResult).err.kind = "JobNotFound"

(***************************************************************************)
(* submit and execute_verification writing the ledger                      *)
(***************************************************************************)
\* HistoryDb::insert(&record): job_id is UNIQUE, a second row for it is refused.
DbInsert(table, job_id, record) ==
    IF job_id \in DOMAIN table THEN Err([kind |-> "History"])
    ELSE Ok([j \in DOMAIN table \cup {job_id} |->
                IF j = job_id THEN record ELSE table[j]])

\* save_to_history(params); db_ok tells whether HistoryDb::open succeeds
SaveToHistory(table, job_id, db_ok) ==
    IF ~db_ok THEN Err([kind |-> "History"])
    ELSE DbInsert(table, job_id, NewRecord)

\* submit(..) down to the end of execute_verification, given what happens to
\* the submission and the job id n the service would assign:
\* <<result, table afterwards>>
SubmitAndRecordAlways(table, dry, outcome, n, db_ok) ==
    LET r == Submit(dry, outcome, JobId(n))
        saved == SaveToHistory(table, n, db_ok)
    IN <<r, IF IsOk(saved) THEN saved.val ELSE table>>

SubmitAndRecord(table, dry, outcome, n, db_ok) ==
    LET r == Submit(dry, outcome, JobId(n)) IN
    IF IsErr(r) \/ r.val = DryRunId THEN <<r, table>>
    ELSE LET saved == SaveToHistory(table, n, db_ok)
         IN <<r, IF IsOk(saved) THEN saved.val ELSE table>>

SubmitInit ==
    /\ \E n \in 0..MaxJobs : ledger \in [1..n -> DbRecords]
    /\ service = <<>>
    /\ clock = 0
    /\ lastOp = NoOp

\* One run of submit; the service assigns a job id it has not used before.
SubmitRun(dry, outcome, db_ok) ==
    /\ lastOp = NoOp
    /\ LET n == Len(ledger) + 1
           out == SubmitAndRecord(ledger, dry, outcome, n, db_ok)
       IN
       /\ ledger' = out[2]
       /\ lastOp' = [op |-> "submit", at |-> 0, observed |-> <<>>,
                     dry_run |-> dry, outcome |-> outcome, db_ok |-> db_ok,
                     job |-> n, result |-> out[1]]
    /\ UNCHANGED <<service, clock>>
    /\ UNCHANGED <<coreVars, watchVars, clientVars>>

SubmitNext ==
    \E dry \in BOOLEAN, outcome \in SubmitOutcomes, db_ok \in BOOLEAN :
        SubmitRun(dry, outcome, db_ok)

InitSubmit == CoreIdle /\ ClientIdle /\ WatchIdle /\ SubmitInit
SpecSubmit == InitSubmit /\ [][SubmitNext]_vars

\* The run of submit recorded in lastOp returned a job id of the service.
SubmittedJob(op) ==
    op.op = "submit" /\ IsOk(op.result) /\ op.result.val # DryRunId

\* The table is `before` plus one new entry for job, Submitted and without a
\* completion timestamp.
OneNewEntry(before, after, job) ==
    /\ job \notin DOMAIN before
    /\ DOMAIN after = DOMAIN before \cup {job}
    /\ after[job] = [status |-> "Submitted", completed_at |-> None]
    /\ \A j \in DOMAIN before : after[j] = before[j]

\* C24: after a successful non-dry-run submission the ledger holds exactly
\* one entry for the returned job id, with status Submitted and no
\* completion timestamp; a failed submission and a dry run insert nothing.
C24_SubmissionRecorded ==
    [][(lastOp'.op = "submit" /\ LedgerOpRan) =>
         IF SubmittedJob(lastOp') THEN OneNewEntry(ledger, ledger', lastOp'.job)
         ELSE ledger' = ledger]_vars

\* C24 as the code has it: the entry is there when the history database
\* could be opened and written; when saving fails the submission still
\* returns the job id and the ledger is unchanged.
C24_SubmissionRecordedIfSaved ==
    [][(lastOp'.op = "submit" /\ LedgerOpRan) =>
         IF SubmittedJob(lastOp') /\ lastOp'.db_ok
         THEN OneNewEntry(ledger, ledger', lastOp'.job)
         ELSE ledger' = ledger]_vars

C24_Witness ==
    /\ SubmittedJob(lastOp)
    /\ lastOp.db_ok
    /\ Len(ledger) = 2
    /\ ledger[1].status = "Success"
    /\ ledger[2] = NewRecord

(***************************************************************************)
(* File validation in front of the submission                              *)
(***************************************************************************)
MaxFiles == 2

\* const MAX_FILE_SIZE: usize = 1024 * 1024 * 20
MAX_FILE_SIZE == 20971520

allowed_extensions == {"cairo", "toml", "lock", "md", "txt", "json"}

allowed_no_extension_files ==
    {"LICENSE", "README", "CHANGELOG", "NOTICE", "AUTHORS", "CONTRIBUTORS"}

\* A collected file: its extension ("" when it has none), its file name, the
\* length std::fs::metadata reports (None when the call fails, the file being
\* gone) and whether its content can be read.
FileNames ==
    {[extension |-> "cairo", file_name |-> "lib.cairo"],
     [extension |-> "", file_name |-> "LICENSE"],
     [extension |-> "", file_name |-> "Makefile"],
     [extension |-> "exe", file_name |-> "tool.exe"]}

FileSizes == {None, Some(1), Some(MAX_FILE_SIZE), Some(MAX_FILE_SIZE + 1)}

Files ==
    {f \in [extension : {n.extension : n \in FileNames},
            file_name : {n.file_name : n \in FileNames},
            size : FileSizes, readable : BOOLEAN] :
        /\ [extension |-> f.extension, file_name |-> f.file_name] \in FileNames
        /\ (f.size = None => ~f.readable)}

ValidateFileTypeAny(path) == Ok(<<>>)

\* validate_file_type(path)
validate_file_type(path) ==
    IF path.extension \notin allowed_extensions
    THEN IF path.extension = ""
         THEN IF path.file_name \notin allowed_no_extension_files
              THEN Err([kind |-> "InvalidFileType", path |-> path.file_name])
              ELSE Ok(<<>>)
         ELSE Err([kind |-> "InvalidFileType", path |-> path.file_name])
    ELSE Ok(<<>>)

\* One turn of the loop of validate_file_sizes
ValidateOne(path) ==
    IF IsErr(validate_file_type(path)) THEN validate_file_type(path)
    ELSE IF IsSome(path.size) /\ Unwrap(path.size) > MAX_FILE_SIZE
    THEN Err([kind |-> "FileSizeLimit", path |-> path.file_name])
    ELSE Ok(<<>>)

\* validate_file_sizes(files), files in the order the map hands them out
validate_file_sizes(files) ==
    LET bad == {i \in 1..Len(files) : IsErr(ValidateOne(files[i]))} IN
    IF bad = {} THEN Ok(<<>>)
    ELSE ValidateOne(files[CHOOSE i \in bad : \A k \in bad : i <= k])

\* submit(..) from prepare_project_for_verification on:
\* <<result, outbound requests made>>
SubmitFiles(in) ==
    IF IsErr(validate_file_sizes(in.files)) THEN <<validate_file_sizes(in.files), 0>>
    ELSE IF in.dry_run THEN <<Ok(DryRunId), 0>>
    ELSE VerifyClass([class_hash |-> in.class_hash,
                      readable |-> \A i \in 1..Len(in.files) : in.files[i].readable,
                      base_ok |-> TRUE, send |-> in.send])

FilesSends ==
    {[kind |-> "send_error"]} \cup
    {snd \in SubmitSends : snd.kind = "http" /\ snd.code \in {200, 400}
                           /\ IsJsonObject(snd.body)}

FilesInit ==
    /\ vcPc = "call"
    /\ \E n \in 1..MaxFiles :
         vcInput \in [class_hash : {"0x1"}, files : [1..n -> Files],
                      dry_run : BOOLEAN, send : FilesSends]
    /\ vcRequests = 0
    /\ vcResult = None

SubmitFilesCall ==
    /\ vcPc = "call"
    /\ LET out == SubmitFiles(vcInput) IN
       /\ vcResult' = Some(out[1])
       /\ vcRequests' = out[2]
    /\ vcPc' = "returned"
    /\ UNCHANGED vcInput
    /\ UNCHANGED <<coreVars, watchVars, ledgerVars>>

FilesNext == SubmitFilesCall

InitFiles == CoreIdle /\ WatchIdle /\ LedgerIdle /\ FilesInit
SpecFiles == InitFiles /\ [][FilesNext]_vars

\* The file is larger than 20 MiB.
TooLarge(f) == IsSome(f.size) /\ Unwrap(f.size) > 20 * 1024 * 1024

\* The file is none of the kinds submit accepts: sources, manifests, lock
\* files, documents and the well-known project files without extension.
UnrecognisedKind(f) ==
    /\ f.extension \notin {"cairo", "toml", "lock", "md", "txt", "json"}
    /\ ~(f.extension = "" /\ f.file_name \in allowed_no_extension_files)

\* C25: when any collected file is larger than 20 MiB or of an unrecognised
\* kind, submit fails and no outbound request has been made.
C25_BadFileFailsBeforeRequest ==
    (/\ vcPc = "returned"
     /\ \E i \in 1..Len(vcInput.files) :
            TooLarge(vcInput.files[i]) \/ UnrecognisedKind(vcInput.files[i]))
    => (IsErr(Unwrap(vcResult)) /\ vcRequests = 0)

C25_Witness ==
    /\ vcPc = "returned"
    /\ ~vcInput.dry_run
    /\ vcInput.send.kind = "http" /\ vcInput.send.code = 200
    /\ Len(vcInput.files) = 2
    /\ ~TooLarge(vcInput.files[1]) /\ ~UnrecognisedKind(vcInput.files[1])
    /\ vcInput.files[1].readable
    /\ TooLarge(vcInput.files[2]) /\ ~UnrecognisedKind(vcInput.files[2])
    /\ vcInput.files[2].readable
    /\ Unwrap(vcResult) = Err([kind |-> "FileSizeLimit", path |-> "lib.cairo"])
    /\ vcRequests = 0

(***************************************************************************)
(* Shape of the results of submit_batch (SpecBatch)                        *)
(***************************************************************************)
\* C26: in every result submit_batch builds, job id and error are never both
\* set, and the status is set, to Submitted, exactly when the job id is set.
C26_ResultShape ==
    \A k \in 1..Len(results) :
        /\ ~(IsSome(results[k].job_id) /\ IsSome(results[k].error))
        /\ IsSome(results[k].status) <=> IsSome(results[k].job_id)
        /\ IsSome(results[k].status) => results[k].status = Some("Submitted")

C26_Witness ==
    /\ BatchReturnedOk
    /\ Summary.results = results
    /\ \E k \in 1..Len(results) : IsSome(results[k].job_id)
    /\ \E k \in 1..Len(results) : IsSome(results[k].error)

(***************************************************************************)
(* VerificationRecord on its own                                           *)
(***************************************************************************)
\* VerificationRecord::new(.., status, ..)
VerificationRecordNew(status) == [status |-> status, completed_at |-> None]

RecordInit ==
    /\ ledger = [j \in Jobs |-> VerificationRecordNew("Submitted")]
    /\ service = <<>>
    /\ clock = 0
    /\ lastOp = NoOp

\* record.update_status(status) on the record of job j
RecordUpdate(j, status) ==
    /\ clock' = Min(clock + 1, MaxClock)
    /\ ledger' = [ledger EXCEPT ![j] = RecordUpdateStatus(@, status, clock')]
    /\ lastOp' = [op |-> "record_update", at |-> clock', observed |-> <<>>,
                  job_id |-> j, status |-> status]
    /\ UNCHANGED service
    /\ UNCHANGED <<coreVars, watchVars, clientVars>>

RecordNext == \E j \in Jobs, status \in VerifyJobStatus : RecordUpdate(j, status)

InitRecord == CoreIdle /\ ClientIdle /\ WatchIdle /\ RecordInit
SpecRecord == InitRecord /\ [][RecordNext]_vars

\* C27: a new VerificationRecord has no completion timestamp, and after any
\* sequence of update_status calls a record has a completion timestamp
\* exactly when its current status is terminal.
C27_CompletedIffTerminal ==
    /\ \A status \in VerifyJobStatus : VerificationRecordNew(status).completed_at = None
    /\ \A j \in Jobs :
         IsSome(ledger[j].completed_at) <=> ledger[j].status \in TerminalStatuses

(***************************************************************************)
(* What watch_batch leaves alone (SpecWatch)                               *)
(***************************************************************************)
\* The summary `after` differs from `before` in the status and error fields
\* of its results at most.
SameButStatusAndError(before, after) ==
    /\ DOMAIN after = DOMAIN before
    /\ after.total = before.total
    /\ after.submitted = before.submitted
    /\ Len(after.results) = Len(before.results)
    /\ \A k \in 1..Len(before.results) :
         /\ DOMAIN after.results[k] = DOMAIN before.results[k]
         /\ \A f \in DOMAIN before.results[k] \ {"status", "error"} :
              after.results[k][f] = before.results[k][f]

\* C28: the summary watch_batch returns has the total and submitted counts
\* of its input, the same number of results in the same order, each with
\* the contract and job id of the input; only status and error fields
\* differ. No step of watch_batch changes the input summary.
C28_WatchFrame ==
    [][/\ wSummary' = wSummary
       /\ IsSome(wReturned') => SameButStatusAndError(wSummary, Unwrap(wReturned'))]_vars

C28_Witness ==
    /\ WatchReturned
    /\ Len(wSummary.results) = 2
    /\ \E k \in 1..2 : Unwrap(wReturned).results[k].status # wSummary.results[k].status
    /\ \E k \in 1..2 : Unwrap(wReturned).results[k].error # wSummary.results[k].error

(***************************************************************************)
(* Counts of print_batch_status_inline and display_batch_summary           *)
(***************************************************************************)
\* The positions of results the three filters of both functions let through.
SucceededIn(rs) == {k \in 1..Len(rs) : rs[k].status = Some("Success")}

FailedIn(rs) ==
    {k \in 1..Len(rs) :
        rs[k].status \in {Some("Fail"), Some("CompileFailed")} \/ IsSome(rs[k].error)}

PendingIn(rs) ==
    {k \in 1..Len(rs) :
        rs[k].status \in {Some("Submitted"), Some("Processing"), Some("Compiled")}}

\* [succeeded, pending, failed] as both functions print them
StatusCounts(rs) ==
    [succeeded |-> Cardinality(SucceededIn(rs)),
     pending |-> Cardinality(PendingIn(rs)),
     failed |-> Cardinality(FailedIn(rs))]

\* watch_batch is at print_batch_status_inline(&updated_results, iteration).
AtProgressReport == watchPc = "sweep" /\ wPos = Len(wResults)

EachCountedOnce(rs) ==
    /\ SucceededIn(rs) \cap PendingIn(rs) = {}
    /\ SucceededIn(rs) \cap FailedIn(rs) = {}
    /\ PendingIn(rs) \cap FailedIn(rs) = {}
    /\ StatusCounts(rs).succeeded + StatusCounts(rs).pending + StatusCounts(rs).failed
         <= Len(rs)

\* C29: in every progress report of watch_batch and in the summary display
\* of what it returns, each result is counted in at most one of succeeded,
\* pending and failed, and the three counts add up to no more than the number
\* of results.
C29_CountsDisjoint ==
    /\ AtProgressReport => EachCountedOnce(wResults)
    /\ WatchReturned => EachCountedOnce(Unwrap(wReturned).results)

(***************************************************************************)
(* ApiClient::filter_scarb_toml_content                                    *)
(***************************************************************************)
MaxLines == 4

\* Texts are sequences of tokens; "\n" is the line feed, " " a blank.
NL == "\n"

ManifestLines ==
    { <<"[", "dev-dependencies", "]">>,
      <<" ", "[", "dev-dependencies", "]">>,
      <<"[", "scripts", "]">>,
      <<"[", "dev-dependencies", ".", "x", "]">>,
      <<"a", "=", "1">>,
      << >> }

DevDepsComment ==
    <<"#", "[", "dev-dependencies", "]", "section", "removed", "for", "remote", "compilation">>

RECURSIVE JoinLines(_)
\* lines.join("\n")
JoinLines(ls) ==
    IF ls = <<>> THEN <<>>
    ELSE IF Len(ls) = 1 THEN ls[1]
    ELSE ls[1] \o <<NL>> \o JoinLines(Tail(ls))

RECURSIVE SplitAtNL(_, _)
\* The pieces of text between line feeds, cur being the piece under way.
SplitAtNL(text, cur) ==
    IF text = <<>> THEN <<cur>>
    ELSE IF Head(text) = NL THEN <<cur>> \o SplitAtNL(Tail(text), <<>>)
    ELSE SplitAtNL(Tail(text), Append(cur, Head(text)))

\* content.lines(): the pieces between line feeds, without the empty piece
\* after a final line feed
StrLines(text) ==
    LET pieces == SplitAtNL(text, <<>>) IN
    IF pieces[Len(pieces)] = <<>> THEN SubSeq(pieces, 1, Len(pieces) - 1) ELSE pieces

RECURSIVE TrimStart(_)
\* line.trim_start()
TrimStart(line) ==
    IF line # <<>> /\ Head(line) = " " THEN TrimStart(Tail(line)) ELSE line

\* s.starts_with(prefix)
StartsWith(s, prefix) ==
    Len(s) >= Len(prefix) /\ SubSeq(s, 1, Len(prefix)) = prefix

DevDepsHeader == <<"[", "dev-dependencies", "]">>

\* One turn of `for line in content.lines()`; acc is [lines, in_dev_deps].
FilterLineNoReset(acc, line) ==
    IF StartsWith(TrimStart(line), DevDepsHeader)
    THEN [lines |-> Append(acc.lines, DevDepsComment), in_dev_deps |-> TRUE]
    ELSE IF StartsWith(TrimStart(line), <<"[">>)
              /\ ~StartsWith(TrimStart(line), DevDepsHeader)
    THEN [lines |-> (IF acc.in_dev_deps THEN Append(acc.lines, <<>>) ELSE acc.lines)
                        \o <<line>>,
          in_dev_deps |-> acc.in_dev_deps]
    ELSE IF acc.in_dev_deps THEN acc
    ELSE [lines |-> Append(acc.lines, line), in_dev_deps |-> acc.in_dev_deps]

FilterLine(acc, line) ==
    IF StartsWith(TrimStart(line), DevDepsHeader)
    THEN [lines |-> Append(acc.lines, DevDepsComment), in_dev_deps |-> TRUE]
    ELSE IF StartsWith(TrimStart(line), <<"[">>)
              /\ ~StartsWith(TrimStart(line), DevDepsHeader)
    THEN [lines |-> (IF acc.in_dev_deps THEN Append(acc.lines, <<>>) ELSE acc.lines)
                        \o <<line>>,
          in_dev_deps |-> FALSE]
    ELSE IF acc.in_dev_deps THEN acc
    ELSE [lines |-> Append(acc.lines, line), in_dev_deps |-> acc.in_dev_deps]

RECURSIVE FilterLoop(_, _)
FilterLoop(acc, ls) ==
    IF ls = <<>> THEN acc ELSE FilterLoop(FilterLine(acc, Head(ls)), Tail(ls))

\* filter_scarb_toml_content(content): the vector `lines` at the end of the
\* loop and the string returned
filter_scarb_toml_content(content) ==
    LET lines == FilterLoop([lines |-> <<>>, in_dev_deps |-> FALSE], StrLines(content)).lines
    IN [lines |-> lines, text |-> JoinLines(lines)]

\* Manifests: up to MaxLines lines, with or without a final line feed.
Manifests ==
    UNION { { JoinLines(ls) : ls \in [1..n -> ManifestLines] } \cup
            { JoinLines(ls) \o <<NL>> : ls \in [1..n -> ManifestLines] } : n \in 0..MaxLines }

FilterInit ==
    /\ vcPc = "call"
    /\ vcInput \in Manifests
    /\ vcRequests = 0
    /\ vcResult = None

FilterCall ==
    /\ vcPc = "call"
    /\ vcResult' = Some(filter_scarb_toml_content(vcInput))
    /\ vcPc' = "returned"
    /\ UNCHANGED <<vcInput, vcRequests>>
    /\ UNCHANGED <<coreVars, watchVars, ledgerVars>>

FilterNext == FilterCall

InitFilter == CoreIdle /\ WatchIdle /\ LedgerIdle /\ FilterInit
SpecFilter == InitFilter /\ [][FilterNext]_vars

\* The line is a [dev-dependencies] header / the header of another section.
IsDevDepsHeaderLine(line) == StartsWith(TrimStart(line), <<"[", "dev-dependencies", "]">>)
IsOtherHeaderLine(line) ==
    StartsWith(TrimStart(line), <<"[">>) /\ ~IsDevDepsHeaderLine(line)
IsHeaderLine(line) == IsDevDepsHeaderLine(line) \/ IsOtherHeaderLine(line)

\* The header line that opens the section line i of ls is in, 0 if none.
SectionHeaderOf(ls, i) ==
    LET hs == {j \in 1..i : IsHeaderLine(ls[j])} IN
    IF hs = {} THEN 0 ELSE CHOOSE j \in hs : \A k \in hs : k <= j

\* Line i of ls lies in a [dev-dependencies] section, below its header.
InDevDepsSection(ls, i) ==
    /\ ~IsHeaderLine(ls[i])
    /\ SectionHeaderOf(ls, i) # 0
    /\ IsDevDepsHeaderLine(ls[SectionHeaderOf(ls, i)])

\* Line i of ls is a section header that ends a [dev-dependencies] section.
EndsDevDepsSection(ls, i) ==
    /\ IsOtherHeaderLine(ls[i])
    /\ i > 1
    /\ SectionHeaderOf(ls, i - 1) # 0
    /\ IsDevDepsHeaderLine(ls[SectionHeaderOf(ls, i - 1)])

RECURSIVE Flatten(_)
Flatten(pieces) ==
    IF pieces = <<>> THEN <<>> ELSE Head(pieces) \o Flatten(Tail(pieces))

\* What the pass makes of line i, as the claim describes it.
ClaimedPiece(ls, i) ==
    IF IsDevDepsHeaderLine(ls[i]) THEN <<DevDepsComment>>
    ELSE IF InDevDepsSection(ls, i) THEN <<>>
    ELSE <<ls[i]>>

\* The same, with the empty line in front of the header that ends a dropped
\* section.
ActualPiece(ls, i) ==
    IF EndsDevDepsSection(ls, i) THEN << <<>>, ls[i] >> ELSE ClaimedPiece(ls, i)

FilterReturned == vcPc = "returned" /\ IsSome(vcResult)
InputLines == StrLines(vcInput)
HasDevDeps(ls) == \E i \in 1..Len(ls) : IsDevDepsHeaderLine(ls[i])

\* C30: filter_scarb_toml_content replaces each [dev-dependencies] header by
\* one comment line, drops every line from that header up to but not
\* including the next section header, and keeps every other line unchanged
\* and in order; without a [dev-dependencies] section the lines are the same.
C30_FilterDropsDevDeps ==
    FilterReturned =>
        /\ Unwrap(vcResult).lines =
              Flatten([i \in 1..Len(InputLines) |-> ClaimedPiece(InputLines, i)])
        /\ ~HasDevDeps(InputLines) => Unwrap(vcResult).lines = InputLines

\* C30 as the code has it: in addition, one empty line is put in front of
\* the section header that ends a dropped section; the returned string is
\* the lines joined by line feeds.
C30_FilterDropsDevDepsBlank ==
    FilterReturned =>
        /\ Unwrap(vcResult).lines =
              Flatten([i \in 1..Len(InputLines) |-> ActualPiece(InputLines, i)])
        /\ ~HasDevDeps(InputLines) => Unwrap(vcResult).lines = InputLines
        /\ Unwrap(vcResult).text = JoinLines(Unwrap(vcResult).lines)

C30_Witness ==
    /\ FilterReturned
    /\ InputLines = << <<"a", "=", "1">>, <<"[", "dev-dependencies", "]">>,
                       <<"a", "=", "1">>, <<"[", "scripts", "]">> >>
    /\ Unwrap(vcResult).lines = << <<"a", "=", "1">>, DevDepsComment, <<>>,
                                   <<"[", "scripts", "]">> >>

====
